---- MODULE Spec2Model ----
(***************************************************************************)
(* A model of the ingestion pipeline (src/src/ingestion/ingested_data.py)  *)
(* and of the store loader (src/src/loaders/loader.py).                    *)
(*                                                                         *)
(* Strings are sequences of atoms.  An atom is one character, or a run of  *)
(* lowercase letters and digits that every operation modelled here treats  *)
(* as a unit (so "first_name" is <<"first", "_", "name">>).  A cell of a   *)
(* DataFrame is a string or Null.  A DataFrame is a record                 *)
(* [cols : set of column names, rows : sequence of rows], a row being a    *)
(* function from the columns to cells.                                     *)
(***************************************************************************)
EXTENDS Naturals, Sequences, FiniteSets

VARIABLES
    \* ---- ingestion run (ingested_data.py main) ----
    rawDir,       \* RAW_DATA_PATH: file id -> the file found there
    ingPc,        \* position of main: "idle", "scan", "merge", "dedup", "write", "done", "aborted"
    ingRun,       \* number of ingestion runs started so far
    listing,      \* what os.listdir returned for the running run (a sequence of file ids)
    idx,          \* index into listing of the next file the for loop visits
    outcome,      \* per file, this run: "pending", "skipped", "processed", "raised"
    all_dfs,      \* main's all_dfs
    merged_df,    \* main's merged_df
    outputDir,    \* OUTPUT_PATH: NoSnapshot, or the DataFrame the last write left there
    firstOutput,  \* what the first completed run wrote (kept to compare runs)
    \* ---- store loader run (loader.py main) ----
    parquetDir,   \* PARQUET_DIR: [cols: the snapshot's column list, files: per file its rows]
    schema,       \* the store's master_records table: column name -> type (NoTable: absent)
    storeRows,    \* the rows of master_records, in insertion order
    loadPc,       \* position of main: "idle", "files", "batches", "done"
    loadRun,      \* number of loader runs started so far
    fileIdx,      \* index of the file the for loop of line 113 is at
    offset,       \* i of the batch loop of line 132
    colnames,     \* colnames of the file being loaded
    calls,        \* the store calls made for the file being loaded, in order
    failed,       \* per file, the number of its batches whose insert failed, this run
    log,          \* the lines printed since the file being loaded began
    faults,       \* number of store or read failures so far
    firstEnsured, \* the first run in which an ensure_table_schema call met no failure (0: none yet)
    \* ---- calls of the helper functions ----
    input,        \* the argument a helper function is called with
    output,       \* the values returned so far, in call order
    \* ---- credit metering of the API (api/services/credit_service.py) ----
    credits,      \* credits_balance of the user's row of the credits table, as committed
    lock,         \* the request whose transaction holds the row's lock (0: none)
    pc,           \* per request: "idle", "selected", "updated", "returned", "raised"
    req,          \* per request: [kind, amount], kind being "deduct" or "topup"
    seen,         \* per request: credit.credits_balance as its SELECT returned it
    new_balance   \* per request: the new_balance it computed

ingVars == <<rawDir, ingPc, ingRun, listing, idx, outcome, all_dfs, merged_df,
             outputDir, firstOutput>>

loadVars == <<parquetDir, schema, storeRows, loadPc, loadRun, fileIdx, offset,
              colnames, calls, failed, log, faults, firstEnsured>>

callVars == <<input, output>>

apiVars == <<credits, lock, pc, req, seen, new_balance>>

vars == <<ingVars, loadVars, callVars, apiVars>>

-----------------------------------------------------------------------------
(* Bounds of the model *)

NumFiles == 2
MaxIngestRuns == 2
MaxParquetFiles == 2
MaxLoadRuns == 2
MaxFaults == 2
MaxNodes == 3      \* entries and elements of a nested record, all levels together
MaxNameLen == 4    \* characters of a field name
MaxLineLen == 5    \* tokens of a JSON line
MaxCsvLen == 4     \* characters of a delimited line
MaxCols == 3       \* columns of an INSERT statement
MaxVals == 3       \* values of a row of an INSERT statement
MaxRows == 2       \* rows of an INSERT statement
MaxSynRows == 1    \* rows of a DataFrame given to normalize_columns
MaxCalls == 2      \* successive calls of a helper function on its own result
MaxElems == 3      \* elements of a document below its root
NumRequests == 2   \* concurrent requests of the API for one user
MaxAmount == 2     \* credits of a deduction or of a top-up
InitialBalance == 2  \* the user's balance before the requests

-----------------------------------------------------------------------------
(* Strings and cells *)

Null == <<"<NULL>">>
EmptyStr == <<>>

IsNull(v) == v = Null

\* str.lower() / Spark lower(): character by character.
LowerChar(c) ==
    CASE c = "A" -> "a"
      [] c = "E" -> "e"
      [] c = "C" -> "c"
      [] c = "F" -> "f"
      [] c = "I" -> "i"
      [] c = "O" -> "o"
      [] c = "S" -> "s"
      [] c = "T" -> "t"
      [] c = "U" -> "u"
      [] c = "W" -> "w"
      [] OTHER -> c

Lower(s) == IF IsNull(s) THEN Null ELSE [i \in 1..Len(s) |-> LowerChar(s[i])]

RECURSIVE LTrim(_)
LTrim(s) == IF s # <<>> /\ Head(s) = " " THEN LTrim(Tail(s)) ELSE s

RECURSIVE RTrim(_)
RTrim(s) ==
    IF s # <<>> /\ s[Len(s)] = " " THEN RTrim(SubSeq(s, 1, Len(s) - 1)) ELSE s

\* Spark trim(): strips the spaces at both ends; null stays null.
Trim(s) == IF IsNull(s) THEN Null ELSE RTrim(LTrim(s))

\* sha2(x, 256): the digest is modelled as collision-free, a tagged copy of
\* the hashed string, so two digests are equal exactly when the inputs are.
Sha2(s) == <<"sha256:">> \o s

RECURSIVE JoinWith(_, _)
JoinWith(sep, parts) ==
    IF parts = <<>> THEN <<>>
    ELSE IF Len(parts) = 1 THEN parts[1]
    ELSE parts[1] \o sep \o JoinWith(sep, Tail(parts))

\* Spark concat_ws(sep, c1, ..., cn): joins the non-null cells; never null.
ConcatWs(sep, cells) ==
    JoinWith(sep, SelectSeq(cells, LAMBDA v : ~IsNull(v)))

-----------------------------------------------------------------------------
(* DataFrames *)

NoDf == [cols |-> {}, rows |-> <<>>]

\* df.withColumn(c, expr): adds or replaces column c; vals[i] is the value
\* of expr on row i.
WithColumn(df, c, vals) ==
    [cols |-> df.cols \cup {c},
     rows |-> [i \in 1..Len(df.rows) |->
                  [k \in df.cols \cup {c} |->
                      IF k = c THEN vals[i] ELSE df.rows[i][k]]]]

\* df.withColumnRenamed(old, new).
WithColumnRenamed(df, old, new) ==
    LET cs == (df.cols \ {old}) \cup {new} IN
    [cols |-> cs,
     rows |-> [i \in 1..Len(df.rows) |->
                  [k \in cs |-> IF k = new THEN df.rows[i][old] ELSE df.rows[i][k]]]]

\* a.unionByName(b, allowMissingColumns=True): the columns are the union of
\* both column sets, and a row gets null in every column its side lacks.
UnionByName(a, b) ==
    LET cs == a.cols \cup b.cols
        Pad(df) == [i \in 1..Len(df.rows) |->
                       [k \in cs |-> IF k \in df.cols THEN df.rows[i][k] ELSE Null]]
    IN  [cols |-> cs, rows |-> Pad(a) \o Pad(b)]

RECURSIVE RowsAt(_, _, _)
RowsAt(rows, S, i) ==
    IF i > Len(rows) THEN <<>>
    ELSE (IF i \in S THEN <<rows[i]>> ELSE <<>>) \o RowsAt(rows, S, i + 1)

\* The mutant of DropDuplicates: nothing is dropped.
DropDuplicatesKeepsAll(df, c) == {df}

\* df.dropDuplicates([c]): one row survives for every value of column c.
\* Spark does not say which one (the rows are shuffled by c and the first
\* one a task meets is kept), so every choice is a possible result.
DropDuplicates(df, c) ==
    LET n == Len(df.rows)
        Picks == {S \in SUBSET (1..n) :
                     \A i \in 1..n :
                         Cardinality({j \in S : df.rows[j][c] = df.rows[i][c]}) = 1}
    IN  {[cols |-> df.cols, rows |-> RowsAt(df.rows, S, 1)] : S \in Picks}

-----------------------------------------------------------------------------
(* ingested_data.py *)

None == "None"

\* detect_format: by the lowercased extension of the path.
detect_format(ext) ==
    LET e == LowerChar(ext) IN
    CASE e = "csv" -> "csv"
      [] e \in {"json", "jsonl"} -> "json"
      [] e = "parquet" -> "parquet"
      [] e = "xml" -> "xml"
      [] e \in {"xlsx", "xls"} -> "excel"
      [] e \in {"sql", "dump"} -> "sql"
      [] OTHER -> None

\* read_file, lines 349-357: every null cell becomes the empty string.
FillNulls(df) ==
    [cols |-> df.cols,
     rows |-> [i \in 1..Len(df.rows) |->
                  [k \in df.cols |->
                      IF IsNull(df.rows[i][k]) THEN EmptyStr ELSE df.rows[i][k]]]]

\* read_file.  A file's "raises" names the stage of its processing at which
\* an exception is raised ("none": nowhere).  The pre-flight block (lines
\* 236-276) and the read block (lines 279-340) catch theirs and return
\* None; lines 343-366 are in no try block.  The result is None, a
\* DataFrame, or the exception that leaves read_file.
read_file(f) ==
    IF detect_format(f.ext) = None THEN [tag |-> "none", df |-> NoDf]
    ELSE IF f.raises = "preflight" THEN [tag |-> "none", df |-> NoDf]
    ELSE IF f.raises = "read" THEN [tag |-> "none", df |-> NoDf]
    ELSE IF f.raises = "fill" THEN [tag |-> "raise", df |-> NoDf]
    ELSE [tag |-> "df", df |-> FillNulls(f.df)]

\* normalize_columns' mapping, in the dict's order.
mapping ==
    << <<"fname", "first_name">>, <<"lname", "last_name">>,
       <<"full_name", "name">>, <<"email_address", "email">>,
       <<"e_mail", "email">>, <<"phone_number", "phone">>,
       <<"mobile", "phone">>, <<"date_of_birth", "dob">>,
       <<"birth_date", "dob">> >>

\* The mutant of ApplyMapping: a synonym is renamed whether or not the
\* canonical column is there.
RECURSIVE ApplyMappingUnguarded(_, _)
ApplyMappingUnguarded(df, i) ==
    IF i > Len(mapping) THEN df
    ELSE ApplyMappingUnguarded(IF mapping[i][1] \in df.cols
                               THEN WithColumnRenamed(df, mapping[i][1], mapping[i][2])
                               ELSE df,
                               i + 1)

RECURSIVE ApplyMapping(_, _)
ApplyMapping(df, i) ==
    IF i > Len(mapping) THEN df
    ELSE LET old == mapping[i][1]
             new == mapping[i][2]
         IN  ApplyMapping(IF old \in df.cols /\ new \notin df.cols
                          THEN WithColumnRenamed(df, old, new)
                          ELSE df,
                          i + 1)

TrimmedFields == <<"name", "first_name", "last_name", "email", "phone">>

RECURSIVE TrimLower(_, _)
TrimLower(df, i) ==
    IF i > Len(TrimmedFields) THEN df
    ELSE LET field == TrimmedFields[i]
             vals == [k \in 1..Len(df.rows) |-> Trim(Lower(df.rows[k][field]))]
         IN  TrimLower(IF field \in df.cols THEN WithColumn(df, field, vals) ELSE df,
                       i + 1)

\* current_timestamp() at clock reading t, as a string of t ticks.
Stamp(t) == [i \in 1..t |-> "t"]

\* normalize_columns(df) at clock reading t.
normalize_columns(df, t) ==
    WithColumn(TrimLower(ApplyMapping(df, 1), 1), "ingest_timestamp",
               [k \in 1..Len(df.rows) |-> Stamp(t)])

IdentityCols == <<"name", "email", "phone", "dob">>

NoKeyLiteral == <<"no", "_", "key">>

\* generate_canonical_key: the key columns are the identity columns the
\* DataFrame has; every row's key hashes that row's cells in those columns.
generate_canonical_key(df) ==
    LET key_cols == SelectSeq(IdentityCols, LAMBDA c : c \in df.cols)
        Key(row) == Sha2(ConcatWs(<<"|", "|">>,
                                  [i \in 1..Len(key_cols) |-> row[key_cols[i]]]))
    IN  IF Len(key_cols) = 0
        THEN WithColumn(df, "canonical_key",
                        [k \in 1..Len(df.rows) |-> Sha2(NoKeyLiteral)])
        ELSE WithColumn(df, "canonical_key",
                        [k \in 1..Len(df.rows) |-> Key(df.rows[k])])

\* main, lines 450-453: the union of all_dfs, left to right.
RECURSIVE MergeAll(_, _, _)
MergeAll(acc, dfs, i) ==
    IF i > Len(dfs) THEN acc
    ELSE MergeAll(UnionByName(acc, dfs[i]), dfs, i + 1)

-----------------------------------------------------------------------------
(* The files of RAW_DATA_PATH *)

DataCols == {"name", "email", "city"}

\* The cells a raw file may hold in a column.
CellsOf(c) ==
    CASE c = "name" -> {Null, <<"a">>, <<"A", " ">>, <<"no", "_", "key">>}
      [] c = "email" -> {Null}
      [] OTHER -> {<<"x">>, <<"y">>}

\* The DataFrames a reader may produce from one file, once the rows Spark
\* marked corrupt are dropped (lines 343-347): one row, over any non-empty
\* set of the columns.
FileDfs ==
    UNION {{[cols |-> cs, rows |-> <<row>>] :
               row \in {r \in [cs -> UNION {CellsOf(c) : c \in cs}] :
                           \A c \in cs : r[c] \in CellsOf(c)}} :
           cs \in (SUBSET DataCols) \ {{}}}

SampleDf == [cols |-> {"name"}, rows |-> << [c \in {"name"} |-> <<"a">>] >>]

\* The stages of a file's processing that may raise.
Stages == {"preflight", "read", "fill", "count", "normalize", "key"}

\* A file: its extension, the stage at which processing it raises, and the
\* DataFrame its reader produces.
Files ==
    {[ext |-> "txt", raises |-> "none", df |-> SampleDf]}
    \cup {[ext |-> "csv", raises |-> st, df |-> SampleDf] : st \in Stages}
    \cup {[ext |-> "csv", raises |-> "none", df |-> d] : d \in FileDfs}

FileIds == 1..NumFiles

\* The orders os.listdir may return the files in: any.
Listings ==
    {l \in [FileIds -> FileIds] : \A i, j \in FileIds : l[i] = l[j] => i = j}

-----------------------------------------------------------------------------
(* ingested_data.py main *)

IngInit ==
    /\ rawDir \in [FileIds -> Files]
    /\ ingPc = "idle"
    /\ ingRun = 0
    /\ listing = [i \in FileIds |-> i]
    /\ idx = 1
    /\ outcome = [i \in FileIds |-> "pending"]
    /\ all_dfs = <<>>
    /\ merged_df = NoDf
    /\ outputDir = NoDf
    /\ firstOutput = NoDf

\* main is entered and os.listdir is called (line 424).
BeginRun ==
    /\ \E l \in Listings : listing' = l
    /\ ingRun' = ingRun + 1
    /\ ingPc' = "scan"
    /\ idx' = 1
    /\ outcome' = [i \in FileIds |-> "pending"]
    /\ all_dfs' = <<>>
    /\ merged_df' = NoDf
    /\ UNCHANGED <<rawDir, outputDir, firstOutput>>

\* The first run over the directory.
StartRun ==
    /\ ingPc = "idle"
    /\ BeginRun

\* Another run over the same directory, after one has ended.
Rerun ==
    /\ ingPc \in {"done", "aborted"}
    /\ ingRun < MaxIngestRuns
    /\ BeginRun

InLoop == ingPc = "scan" /\ idx <= NumFiles

CurFile == rawDir[listing[idx]]

\* Lines 427-430: unsupported extension, continue.
SkipUnsupported ==
    /\ InLoop
    /\ detect_format(CurFile.ext) = None
    /\ outcome' = [outcome EXCEPT ![listing[idx]] = "skipped"]
    /\ idx' = idx + 1
    /\ UNCHANGED <<rawDir, ingPc, ingRun, listing, all_dfs, merged_df,
                   outputDir, firstOutput>>

\* Lines 433-437: read_file returned None, continue.
SkipUnreadable ==
    /\ InLoop
    /\ detect_format(CurFile.ext) # None
    /\ read_file(CurFile).tag = "none"
    /\ outcome' = [outcome EXCEPT ![listing[idx]] = "skipped"]
    /\ idx' = idx + 1
    /\ UNCHANGED <<rawDir, ingPc, ingRun, listing, all_dfs, merged_df,
                   outputDir, firstOutput>>

\* Whether processing file f raises outside every try block: in read_file
\* after its two try blocks, or at lines 439-442 of main (df.count(),
\* normalize_columns, generate_canonical_key), none of which is guarded.
RaisesUncaught(f) ==
    \/ read_file(f).tag = "raise"
    \/ read_file(f).tag = "df" /\ f.raises \in {"count", "normalize", "key"}

\* The exception leaves main: the run ends there.
RaiseInFile ==
    /\ InLoop
    /\ detect_format(CurFile.ext) # None
    /\ RaisesUncaught(CurFile)
    /\ outcome' = [outcome EXCEPT ![listing[idx]] = "raised"]
    /\ ingPc' = "aborted"
    /\ UNCHANGED <<rawDir, ingRun, listing, idx, all_dfs, merged_df,
                   outputDir, firstOutput>>

\* Lines 439-444: the file's DataFrame is normalized, keyed and appended.
AppendFile ==
    /\ InLoop
    /\ detect_format(CurFile.ext) # None
    /\ read_file(CurFile).tag = "df"
    /\ ~RaisesUncaught(CurFile)
    /\ all_dfs' = Append(all_dfs,
                         generate_canonical_key(
                             normalize_columns(read_file(CurFile).df, ingRun)))
    /\ outcome' = [outcome EXCEPT ![listing[idx]] = "processed"]
    /\ idx' = idx + 1
    /\ UNCHANGED <<rawDir, ingPc, ingRun, listing, merged_df, outputDir,
                   firstOutput>>

\* Lines 446-448: no usable file, the run returns without output.
NoValidData ==
    /\ ingPc = "scan" /\ idx > NumFiles
    /\ all_dfs = <<>>
    /\ ingPc' = "done"
    /\ UNCHANGED <<rawDir, ingRun, listing, idx, outcome, all_dfs, merged_df,
                   outputDir, firstOutput>>

\* Lines 450-453.
Merge ==
    /\ ingPc = "scan" /\ idx > NumFiles
    /\ all_dfs # <<>>
    /\ merged_df' = MergeAll(all_dfs[1], all_dfs, 2)
    /\ ingPc' = "dedup"
    /\ UNCHANGED <<rawDir, ingRun, listing, idx, outcome, all_dfs, outputDir,
                   firstOutput>>

\* Lines 455-460.
Dedup ==
    /\ ingPc = "dedup"
    /\ IF "canonical_key" \in merged_df.cols
       THEN merged_df' \in DropDuplicates(merged_df, "canonical_key")
       ELSE merged_df' = merged_df
    /\ ingPc' = "write"
    /\ UNCHANGED <<rawDir, ingRun, listing, idx, outcome, all_dfs, outputDir,
                   firstOutput>>

\* Lines 462-467: the snapshot directory is overwritten.
WriteOutput ==
    /\ ingPc = "write"
    /\ outputDir' = merged_df
    /\ firstOutput' = IF firstOutput = NoDf THEN merged_df ELSE firstOutput
    /\ ingPc' = "done"
    /\ UNCHANGED <<rawDir, ingRun, listing, idx, outcome, all_dfs, merged_df>>

-----------------------------------------------------------------------------
(* The store: ClickHouse's master_records table *)

canonical_key == <<"canonical", "_", "key">>
ingest_timestamp == <<"ingest", "_", "timestamp">>

NoTable == <<>>

\* The table CREATE TABLE IF NOT EXISTS makes (loader.py lines 91-104).
CoreTable ==
    LET cs == {canonical_key, <<"name">>, <<"first", "_", "name">>,
               <<"last", "_", "name">>, <<"email">>, <<"phone">>, <<"dob">>,
               ingest_timestamp}
    IN  [c \in cs |-> IF c = ingest_timestamp THEN "DateTime" ELSE "String"]

\* The mutant of CreateTableIfNotExists: CREATE OR REPLACE TABLE.
CreateOrReplaceTable(sch) == CoreTable

CreateTableIfNotExists(sch) == IF sch = NoTable THEN CoreTable ELSE sch

\* ALTER TABLE ... ADD COLUMN IF NOT EXISTS c type: an existing column stays
\* as it is.
AddColumnIfNotExists(sch, c, type) ==
    [k \in DOMAIN sch \cup {c} |-> IF k \in DOMAIN sch THEN sch[k] ELSE type]

\* insert-batch: the store refuses a column it does not have.
StoreAccepts(sch, cols) == \A i \in 1..Len(cols) : cols[i] \in DOMAIN sch

-----------------------------------------------------------------------------
(* loader.py *)

\* BATCH_SIZE (50000 in loader.py), scaled down so that a file of a few rows
\* has several batches.
BATCH_SIZE == 2

\* cast_dataframe, as far as the column list goes: ingest_timestamp is added
\* at the end when the file lacks it.
cast_dataframe(cols) ==
    IF \E i \in 1..Len(cols) : cols[i] = ingest_timestamp
    THEN cols
    ELSE Append(cols, ingest_timestamp)

\* col.replace(" ", "_").replace("-", "_")
safe_col(col) ==
    [i \in 1..Len(col) |-> IF col[i] \in {" ", "-"} THEN "_" ELSE col[i]]

\* The mutant of AddCalls: existing_cols is not consulted.
AddCallsUnchecked(existing_cols, columns) ==
    [i \in 1..Len(columns) |-> [col |-> safe_col(columns[i]), type |-> "String"]]
    \o <<[col |-> ingest_timestamp, type |-> "DateTime"]>>

\* ensure_table_schema, lines 46-61: the add-column calls made, in order,
\* given what DESCRIBE returned.
AddCalls(existing_cols, columns) ==
    LET want == [i \in 1..Len(columns) |-> safe_col(columns[i])]
        adds == SelectSeq(want, LAMBDA c : c \notin existing_cols /\ c # ingest_timestamp)
    IN  [i \in 1..Len(adds) |-> [col |-> adds[i], type |-> "String"]]
        \o (IF ingest_timestamp \notin existing_cols
            THEN <<[col |-> ingest_timestamp, type |-> "DateTime"]>>
            ELSE <<>>)

RECURSIVE ApplyAdds(_, _, _, _)
ApplyAdds(sch, adds, failing, i) ==
    IF i > Len(adds) THEN sch
    ELSE ApplyAdds(IF adds[i].col \in failing
                   THEN sch
                   ELSE AddColumnIfNotExists(sch, adds[i].col, adds[i].type),
                   adds, failing, i + 1)

\* ensure_table_schema(client, columns).  describeOk: whether DESCRIBE
\* answers; failing: the columns whose add-column call raises.  Gives the
\* table afterwards, the store calls made and the lines printed.
ensure_table_schema(sch, columns, describeOk, failing) ==
    IF ~describeOk
    THEN [schema |-> sch,
          calls |-> <<[op |-> "describe", existing |-> {}, ok |-> FALSE]>>,
          log |-> <<[kind |-> "error_schema"]>>]
    ELSE LET adds == AddCalls(DOMAIN sch, columns) IN
         [schema |-> ApplyAdds(sch, adds, failing, 1),
          calls |-> <<[op |-> "describe", existing |-> DOMAIN sch, ok |-> TRUE]>>
                    \o [i \in 1..Len(adds) |->
                           [op |-> "add", col |-> adds[i].col, type |-> adds[i].type,
                            ok |-> adds[i].col \notin failing]],
          log |-> [i \in 1..Len(adds) |->
                      IF adds[i].col \in failing
                      THEN [kind |-> "could_not_add", col |-> adds[i].col]
                      ELSE [kind |-> "added", col |-> adds[i].col]]]

Min(a, b) == IF a < b THEN a ELSE b

\* The mutant of Batch: the slice ends one row too far.
BatchOneTooFar(rows, i) == SubSeq(rows, i + 1, Min(i + BATCH_SIZE + 1, Len(rows)))

\* rows[i:i+BATCH_SIZE]
Batch(rows, i) == SubSeq(rows, i + 1, Min(i + BATCH_SIZE, Len(rows)))

-----------------------------------------------------------------------------
(* The snapshots of PARQUET_DIR *)

\* Columns a master record set may have besides its key and timestamp.
ExtraCols == << <<"city">>, <<"zip", " ", "code">>, <<"zip", "-", "code">> >>

RECURSIVE SubLists(_)
SubLists(l) ==
    IF l = <<>> THEN {<<>>}
    ELSE LET rest == SubLists(Tail(l)) IN rest \cup {<<Head(l)>> \o r : r \in rest}

\* The column lists of a snapshot the ingestion run writes.
SnapshotCols == {l \o <<ingest_timestamp, canonical_key>> : l \in SubLists(ExtraCols)}

\* The numbers of rows a snapshot file may have: less than a batch, one full
\* batch, two full batches and a partial one.
RowCounts == {1, BATCH_SIZE, 2 * BATCH_SIZE + 1}

\* A row is identified by its canonical_key, which no two rows of a snapshot
\* share (the ingestion run has dropped the duplicates).
RowsOfFile(f, n) == [i \in 1..n |-> <<f, i>>]

Snapshots ==
    {[cols |-> cs, files |-> [f \in 1..Len(ns) |-> RowsOfFile(f, ns[f])]] :
        cs \in SnapshotCols,
        ns \in UNION {[1..k -> RowCounts] : k \in 0..MaxParquetFiles}}

-----------------------------------------------------------------------------
(* loader.py main *)

LoadInit ==
    /\ parquetDir \in Snapshots
    /\ schema \in {NoTable, CoreTable,
                   [c \in DOMAIN CoreTable \ {ingest_timestamp} |-> "String"]}
    /\ storeRows = <<>>
    /\ loadPc = "idle"
    /\ loadRun = 0
    /\ fileIdx = 1
    /\ offset = 0
    /\ colnames = <<>>
    /\ calls = <<>>
    /\ failed = <<>>
    /\ log = <<>>
    /\ faults = 0
    /\ firstEnsured = 0

NumParquet == Len(parquetDir.files)

\* Lines 90-111: the table is created when absent and the files are listed.
StartLoad ==
    /\ loadPc \in {"idle", "done"}
    /\ loadRun < MaxLoadRuns
    /\ loadRun' = loadRun + 1
    /\ schema' = CreateTableIfNotExists(schema)
    /\ IF NumParquet = 0
       THEN /\ loadPc' = "done"
            /\ log' = <<[kind |-> "no_files"]>>
       ELSE /\ loadPc' = "files"
            /\ log' = <<>>
    /\ fileIdx' = 1
    /\ offset' = 0
    /\ colnames' = <<>>
    /\ calls' = <<>>
    /\ failed' = [f \in 1..NumParquet |-> 0]
    /\ UNCHANGED <<parquetDir, storeRows, faults, firstEnsured>>

AtFile == loadPc = "files" /\ fileIdx <= NumParquet

\* Lines 141-143: reading or casting the file raises; the file is skipped.
FileFails ==
    /\ AtFile
    /\ faults < MaxFaults
    /\ faults' = faults + 1
    /\ log' = <<[kind |-> "loading", file |-> fileIdx],
                [kind |-> "error_file", file |-> fileIdx]>>
    /\ calls' = <<>>
    /\ colnames' = <<>>
    /\ fileIdx' = fileIdx + 1
    /\ UNCHANGED <<parquetDir, schema, storeRows, loadPc, loadRun, offset, failed,
                   firstEnsured>>

\* Lines 113-129: the file is read and cast, and the table is brought up to
\* its columns.
LoadFile ==
    /\ AtFile
    /\ \E describeOk \in BOOLEAN :
       \E failing \in SUBSET {safe_col(c) : c \in {ExtraCols[i] : i \in 1..Len(ExtraCols)}
                                                  \cup {ingest_timestamp}} :
          LET cols == cast_dataframe(parquetDir.cols)
              adds == AddCalls(DOMAIN schema, cols)
              nFail == IF describeOk
                       THEN Cardinality({i \in 1..Len(adds) : adds[i].col \in failing})
                       ELSE 1
              ens == ensure_table_schema(schema, cols, describeOk, failing)
          IN  /\ describeOk =>
                    failing \subseteq {adds[i].col : i \in 1..Len(adds)}
              /\ ~describeOk => failing = {}
              /\ faults + nFail <= MaxFaults
              /\ faults' = faults + nFail
              /\ firstEnsured' = IF firstEnsured = 0 /\ nFail = 0 THEN loadRun
                                 ELSE firstEnsured
              /\ schema' = ens.schema
              /\ calls' = ens.calls
              /\ log' = <<[kind |-> "loading", file |-> fileIdx]>> \o ens.log
              /\ colnames' = cols
    /\ offset' = 0
    /\ loadPc' = "batches"
    /\ UNCHANGED <<parquetDir, storeRows, loadRun, fileIdx, failed>>

CurRows == parquetDir.files[fileIdx]

\* Lines 132-139, one turn of the batch loop: the insert is attempted; when
\* it raises, the batch is skipped.  On the last batch the file is done.
InsertBatch ==
    /\ loadPc = "batches"
    /\ offset < Len(CurRows)
    /\ LET batch == Batch(CurRows, offset)
           line == [kind |-> "inserting", from |-> offset, to |-> offset + Len(batch)]
       IN  \E storeFails \in BOOLEAN :
             LET ok == StoreAccepts(schema, colnames) /\ ~storeFails IN
             /\ storeFails => faults < MaxFaults
             /\ storeFails => StoreAccepts(schema, colnames)
             /\ faults' = IF storeFails THEN faults + 1 ELSE faults
             /\ calls' = Append(calls, [op |-> "insert", cols |-> colnames,
                                        from |-> offset, rows |-> batch,
                                        known |-> DOMAIN schema, ok |-> ok])
             /\ storeRows' = IF ok THEN storeRows \o batch ELSE storeRows
             /\ failed' = IF ok THEN failed
                          ELSE [failed EXCEPT ![fileIdx] = failed[fileIdx] + 1]
             /\ log' = IF ok THEN Append(log, line)
                       ELSE log \o <<line, [kind |-> "error_batch", at |-> offset]>>
    /\ IF offset + BATCH_SIZE < Len(CurRows)
       THEN /\ offset' = offset + BATCH_SIZE
            /\ UNCHANGED <<loadPc, fileIdx>>
       ELSE /\ offset' = 0
            /\ loadPc' = "files"
            /\ fileIdx' = fileIdx + 1
    /\ UNCHANGED <<parquetDir, schema, loadRun, colnames, firstEnsured>>

\* Line 145: the run's last line.
FinishLoad ==
    /\ loadPc = "files"
    /\ fileIdx > NumParquet
    /\ loadPc' = "done"
    /\ log' = Append(log, [kind |-> "success_all"])
    /\ UNCHANGED <<parquetDir, schema, storeRows, loadRun, fileIdx, offset, colnames,
                   calls, failed, faults, firstEnsured>>

\* The ingestion's variables while only the loader runs.
IngIdle ==
    /\ rawDir = <<>>
    /\ ingPc = "idle"
    /\ ingRun = 0
    /\ listing = <<>>
    /\ idx = 1
    /\ outcome = <<>>
    /\ all_dfs = <<>>
    /\ merged_df = NoDf
    /\ outputDir = NoDf
    /\ firstOutput = NoDf

LoadNext ==
    \/ StartLoad /\ UNCHANGED <<ingVars, callVars, apiVars>>
    \/ FileFails /\ UNCHANGED <<ingVars, callVars, apiVars>>
    \/ LoadFile /\ UNCHANGED <<ingVars, callVars, apiVars>>
    \/ InsertBatch /\ UNCHANGED <<ingVars, callVars, apiVars>>
    \/ FinishLoad /\ UNCHANGED <<ingVars, callVars, apiVars>>

\* No helper function is being exercised.
CallIdle ==
    /\ input = <<>>
    /\ output = <<>>

\* No request is being served.
ApiIdle ==
    /\ credits = 0
    /\ lock = 0
    /\ pc = <<>>
    /\ req = <<>>
    /\ seen = <<>>
    /\ new_balance = <<>>

LoaderInit == LoadInit /\ IngIdle /\ CallIdle /\ ApiIdle

SpecLoader == LoaderInit /\ [][LoadNext]_vars

\* The loader's variables while only the ingestion runs.
LoadIdle ==
    /\ parquetDir = [cols |-> <<>>, files |-> <<>>]
    /\ schema = NoTable
    /\ storeRows = <<>>
    /\ loadPc = "idle"
    /\ loadRun = 0
    /\ fileIdx = 1
    /\ offset = 0
    /\ colnames = <<>>
    /\ calls = <<>>
    /\ failed = <<>>
    /\ log = <<>>
    /\ faults = 0
    /\ firstEnsured = 0

\* One ingestion run.
IngNext ==
    \/ StartRun /\ UNCHANGED <<loadVars, callVars, apiVars>>
    \/ SkipUnsupported /\ UNCHANGED <<loadVars, callVars, apiVars>>
    \/ SkipUnreadable /\ UNCHANGED <<loadVars, callVars, apiVars>>
    \/ RaiseInFile /\ UNCHANGED <<loadVars, callVars, apiVars>>
    \/ AppendFile /\ UNCHANGED <<loadVars, callVars, apiVars>>
    \/ NoValidData /\ UNCHANGED <<loadVars, callVars, apiVars>>
    \/ Merge /\ UNCHANGED <<loadVars, callVars, apiVars>>
    \/ Dedup /\ UNCHANGED <<loadVars, callVars, apiVars>>
    \/ WriteOutput /\ UNCHANGED <<loadVars, callVars, apiVars>>

IngestInit == IngInit /\ LoadIdle /\ CallIdle /\ ApiIdle

SpecIngest == IngestInit /\ [][IngNext]_vars

\* Ingestion runs repeated over the same directory.
RerunNext ==
    \/ IngNext
    \/ Rerun /\ UNCHANGED <<loadVars, callVars, apiVars>>

SpecRerun == IngestInit /\ [][RerunNext]_vars

-----------------------------------------------------------------------------
(* Claims about the store loader, checked under SpecLoader *)

\* The offsets of the insert calls made for the file being loaded, in order.
InsertOffsets ==
    LET ins == SelectSeq(calls, LAMBDA c : c.op = "insert")
    IN  [i \in 1..Len(ins) |-> ins[i].from]

\* The offsets of all the batches of a file of n rows.
BatchOffsets(n) ==
    [i \in 1..((n + BATCH_SIZE - 1) \div BATCH_SIZE) |-> (i - 1) * BATCH_SIZE]

\* The file whose batch loop has just ended (0: none).
FileJustLoaded ==
    IF loadPc \in {"files", "done"} /\ calls # <<>> THEN fileIdx - 1 ELSE 0

\* Every batch of a file is attempted, in order, whichever inserts fail.
\* (This half of C1 holds.)
AllBatchesAttempted ==
    FileJustLoaded # 0 =>
        InsertOffsets = BatchOffsets(Len(parquetDir.files[FileJustLoaded]))

\* C1: when a batch insert fails the other batches of the file are still
\* attempted in order, and the run reports, for each file, a failed-batch
\* count equal to the number of its batches whose insert failed.  The only
\* line the run ends with says that all data was inserted, which is a count
\* of zero for every file.
C1_FailedBatchesReported ==
    /\ AllBatchesAttempted
    /\ (loadPc = "done" /\ NumParquet > 0) =>
          \A f \in 1..NumParquet :
              log[Len(log)].kind = "success_all" => failed[f] = 0

\* C2: at every insert-batch call, every column name passed to it is a
\* column of the store's table.
C2_InsertColumnsExist ==
    \A i \in 1..Len(calls) :
        calls[i].op = "insert" =>
            \A k \in 1..Len(calls[i].cols) : calls[i].cols[k] \in calls[i].known

\* The number of add-column calls for store column c made by the
\* ensure_table_schema call of the file being loaded.
AddCount(c) == Cardinality({i \in 1..Len(calls) : calls[i].op = "add" /\ calls[i].col = c})

AddedCols == {calls[i].col : i \in {j \in 1..Len(calls) : calls[j].op = "add"}}

\* A load re-run after a load whose schema evolution met no failure.
IsRerunAfterSuccess == firstEnsured # 0 /\ loadRun > firstEnsured

\* C3 as stated: at most one add-column call per missing column, and none
\* at all in a re-run after a successful load.
C3_OneAddPerColumn ==
    /\ \A c \in AddedCols : AddCount(c) = 1
    /\ IsRerunAfterSuccess => AddedCols = {}

\* C3 as amended: ensure_table_schema issues at most one add-column call per
\* incoming column name (one per missing store column unless two incoming
\* names sanitize to the same store column), none for a column DESCRIBE
\* returned, at most one for ingest_timestamp, and none at all in a re-run
\* after a successful load.
C3_OneAddPerIncomingName ==
    /\ \A c \in AddedCols :
          /\ c \notin calls[1].existing
          /\ IF c = ingest_timestamp
             THEN AddCount(c) = 1
             ELSE AddCount(c) =
                    Cardinality({k \in 1..Len(colnames) : safe_col(colnames[k]) = c})
    /\ IsRerunAfterSuccess => AddedCols = {}

\* C3's case: a re-run, after a successful load that had to add a column,
\* describes the table and adds nothing.
C3_Witness ==
    /\ IsRerunAfterSuccess
    /\ Len(calls) >= 1 /\ calls[1].op = "describe" /\ calls[1].ok
    /\ \E k \in 1..Len(colnames) : safe_col(colnames[k]) \notin DOMAIN CoreTable
    /\ AddedCols = {}

\* C9: the store's table holds at most one row per canonical_key.
C9_StoreKeysUnique ==
    \A i, j \in 1..Len(storeRows) : storeRows[i] = storeRows[j] => i = j

\* One step leaves every column of the table in place with its type, and
\* gives a column it adds the type String, or DateTime for ingest_timestamp.
SchemaStepAdditive ==
    /\ DOMAIN schema \subseteq DOMAIN schema'
    /\ \A c \in DOMAIN schema : schema'[c] = schema[c]
    /\ \A c \in DOMAIN schema' \ DOMAIN schema :
          schema'[c] = IF c = ingest_timestamp THEN "DateTime" ELSE "String"

\* C11: across any sequence of loader runs the table's column set after
\* every step is a superset of the one before it, no column is removed or
\* changes its type, and a new column is a String, ingest_timestamp a
\* DateTime.
C11_SchemaAdditiveOnly == [][SchemaStepAdditive]_vars

\* C11's case: a second run has started on a table that an earlier
\* ensure_table_schema call extended beyond the columns of CREATE TABLE.
C11_Witness ==
    /\ loadRun >= 2
    /\ \E c \in DOMAIN schema : c \notin DOMAIN CoreTable

\* The insert calls made for the file being loaded, in order.
Inserts == SelectSeq(calls, LAMBDA c : c.op = "insert")

\* The file that the recorded store calls are for (0: none).
FileOfCalls ==
    IF loadPc = "batches" THEN fileIdx ELSE FileJustLoaded

RECURSIVE ConcatRows(_, _)
ConcatRows(ins, i) ==
    IF i > Len(ins) THEN <<>> ELSE ins[i].rows \o ConcatRows(ins, i + 1)

\* C12: the batches submitted for a file are consecutive slices of its rows
\* in file order: each has at most BATCH_SIZE rows, each but the last has
\* exactly BATCH_SIZE, their offsets increase, and put end to end they are
\* the file's rows (a prefix of them while the loop runs), so every row is
\* in exactly one batch.
C12_BatchesPartitionFile ==
    FileOfCalls # 0 =>
        LET rows == parquetDir.files[FileOfCalls]
            ins == Inserts
            sent == ConcatRows(ins, 1)
        IN  /\ \A i \in 1..Len(ins) :
                  /\ Len(ins[i].rows) >= 1
                  /\ Len(ins[i].rows) <= BATCH_SIZE
                  /\ (i < Len(ins) \/ loadPc = "batches")
                        => Len(ins[i].rows) = BATCH_SIZE
                  /\ i > 1 => ins[i].from > ins[i - 1].from
            /\ Len(sent) <= Len(rows)
            /\ sent = SubSeq(rows, 1, Len(sent))
            /\ loadPc # "batches" => sent = rows

\* C12's case: a file of two full batches and a partial one has been loaded.
C12_Witness ==
    /\ FileJustLoaded # 0
    /\ Len(parquetDir.files[FileJustLoaded]) = 2 * BATCH_SIZE + 1
    /\ Len(Inserts) = 3
    /\ Len(Inserts[3].rows) = 1

-----------------------------------------------------------------------------
(* Claims about the ingestion run, checked under SpecIngest and SpecRerun *)

KeysOf(df) == {df.rows[i]["canonical_key"] : i \in 1..Len(df.rows)}

Merged == ingPc \in {"write", "done"} /\ merged_df # NoDf

\* C4: after the merge/dedup step the master record set holds exactly one
\* record for every canonical_key of any per-file record set, and no two of
\* its records share a key.
C4_OneRecordPerKey ==
    Merged =>
        /\ KeysOf(merged_df) = UNION {KeysOf(all_dfs[d]) : d \in 1..Len(all_dfs)}
        /\ \A i, j \in 1..Len(merged_df.rows) :
              merged_df.rows[i]["canonical_key"] = merged_df.rows[j]["canonical_key"]
                  => i = j

RECURSIVE TotalRows(_, _)
TotalRows(dfs, i) == IF i > Len(dfs) THEN 0 ELSE Len(dfs[i].rows) + TotalRows(dfs, i + 1)

\* C4's case: records of several files shared a key and one was dropped.
C4_Witness ==
    /\ Merged
    /\ Len(all_dfs) >= 2
    /\ Len(merged_df.rows) < TotalRows(all_dfs, 1)

\* A record set's records, without the time they were stamped with.
Survivors(df) ==
    {[c \in df.cols \ {"ingest_timestamp"} |-> df.rows[i][c]] : i \in 1..Len(df.rows)}

\* C5: two runs over the same files leave the same records in the master
\* set, whatever the order of the directory listing.
C5_SameSurvivors ==
    (ingPc = "done" /\ firstOutput # NoDf) =>
        Survivors(outputDir) = Survivors(firstOutput)

\* C6: the master set's columns are the union of the per-file columns, and
\* a record holds the empty string in every column its file lacked.
C6_MissingCellsEmpty ==
    Merged =>
        /\ merged_df.cols = UNION {all_dfs[d].cols : d \in 1..Len(all_dfs)}
        /\ \A i \in 1..Len(merged_df.rows) :
              \E d \in 1..Len(all_dfs) :
                 \E k \in 1..Len(all_dfs[d].rows) :
                    /\ \A c \in all_dfs[d].cols :
                          merged_df.rows[i][c] = all_dfs[d].rows[k][c]
                    /\ \A c \in merged_df.cols \ all_dfs[d].cols :
                          merged_df.rows[i][c] = EmptyStr

IdentitySet == {IdentityCols[i] : i \in 1..Len(IdentityCols)}

\* A record's identity fields; a field its file lacks is an empty one.
IdentityOf(df, k) ==
    [c \in IdentitySet |-> IF c \in df.cols THEN df.rows[k][c] ELSE EmptyStr]

\* C7: two records with the same identity fields get the same
\* canonical_key, whichever file each came from and whatever columns that
\* file has.
C7_KeyFromIdentityOnly ==
    \A d1, d2 \in 1..Len(all_dfs) :
        \A k1 \in 1..Len(all_dfs[d1].rows), k2 \in 1..Len(all_dfs[d2].rows) :
            IdentityOf(all_dfs[d1], k1) = IdentityOf(all_dfs[d2], k2)
                => all_dfs[d1].rows[k1]["canonical_key"]
                     = all_dfs[d2].rows[k2]["canonical_key"]

\* C8: a record gets the sentinel key exactly when none of its identity
\* fields is present.
C8_SentinelIffKeyless ==
    \A d \in 1..Len(all_dfs) :
        \A k \in 1..Len(all_dfs[d].rows) :
            (\A c \in IdentitySet : IdentityOf(all_dfs[d], k)[c] = EmptyStr)
                <=> all_dfs[d].rows[k]["canonical_key"] = Sha2(NoKeyLiteral)

\* C10: no failure in a file's processing ends the run: when the run has
\* ended every file was processed or skipped, and it ended without output
\* only if no file was processed.
C10_NoFileEndsRun ==
    ingPc \in {"done", "aborted"} =>
        /\ \A f \in FileIds : outcome[f] \in {"processed", "skipped"}
        /\ merged_df = NoDf => \A f \in FileIds : outcome[f] # "processed"

-----------------------------------------------------------------------------
(* ingested_data.py: flatten_dict *)

\* A Python value is a record [t, s, c]: t is "scalar", "dict" or "list", s
\* the text of a scalar, c the items of a dict or the elements of a list, in
\* order.  An item is [k |-> key, v |-> value]; an element of a list is an
\* item whose key is empty.  The keys of a dict are distinct.
Scalar(x) == [t |-> "scalar", s |-> x, c |-> <<>>]

DictValue(d) == [t |-> "dict", s |-> "", c |-> d]

ListValue(l) == [t |-> "list", s |-> "", c |-> l]

\* str(v) of a list v: a string that tells the lists apart.
Str(l) == [t |-> "scalar", s |-> "str", c |-> l]

\* dict(items): a key keeps the place of its first item and the value of
\* its last one.
PutItem(d, e) ==
    IF \E i \in 1..Len(d) : d[i].k = e.k
    THEN [i \in 1..Len(d) |-> IF d[i].k = e.k THEN e ELSE d[i]]
    ELSE Append(d, e)

RECURSIVE DictOf(_, _, _)
DictOf(acc, items, i) ==
    IF i > Len(items) THEN acc ELSE DictOf(PutItem(acc, items[i]), items, i + 1)

\* The default of flatten_dict's sep.
DefaultSep == <<"_">>

\* The mutant of NewKey: the separator is put in front of a top-level key
\* as well.
NewKeyAlwaysJoined(parent_key, k) == parent_key \o DefaultSep \o k

\* Line 79: new_key = f"{parent_key}{sep}{k}" if parent_key else k
NewKey(parent_key, k) ==
    IF parent_key # <<>> THEN parent_key \o DefaultSep \o k ELSE k

RECURSIVE flatten_dict(_, _)
RECURSIVE FlattenItems(_, _, _)

\* The items list flatten_dict builds from the items i.. of d.
FlattenItems(d, parent_key, i) ==
    IF i > Len(d) THEN <<>>
    ELSE LET v == d[i].v
             new_key == NewKey(parent_key, d[i].k)
             here ==
                 CASE v.t = "dict" -> flatten_dict(v.c, new_key)
                   [] v.t = "list" ->
                        IF Len(v.c) > 0 /\ v.c[1].v.t = "dict"
                        THEN flatten_dict(v.c[1].v.c, new_key)
                        ELSE <<[k |-> new_key,
                                v |-> IF v.c # <<>> THEN Str(v.c) ELSE Scalar("")]>>
                   [] OTHER -> <<[k |-> new_key, v |-> v]>>
         IN  here \o FlattenItems(d, parent_key, i + 1)

flatten_dict(d, parent_key) == DictOf(<<>>, FlattenItems(d, parent_key, 1), 1)

\* The records flatten_dict is called with: every nested value of at most
\* n entries and elements, over these keys and scalars.
FlatKeys == {<<"a">>, <<"b">>, <<"a", "_", "b">>}

Scalars == {Scalar("1"), Scalar("2")}

\* The number of items and elements of a value, all levels together.
RECURSIVE Content(_)
RECURSIVE ContentOfItems(_)
ContentOfItems(l) ==
    IF l = <<>> THEN 0 ELSE 1 + Content(Head(l).v) + ContentOfItems(Tail(l))

Content(v) == ContentOfItems(v.c)

RECURSIVE Dicts(_)
RECURSIVE Lists(_)
RECURSIVE Values(_)
Dicts(n) ==
    {<<>>} \cup
    (IF n = 0 THEN {}
     ELSE UNION {UNION {{<<[k |-> key, v |-> v]>> \o rest :
                            rest \in {r \in Dicts(n - 1 - Content(v)) :
                                         \A i \in 1..Len(r) : r[i].k # key}} :
                        v \in Values(n - 1)} :
                 key \in FlatKeys})

Lists(n) ==
    {<<>>} \cup
    (IF n = 0 THEN {}
     ELSE UNION {{<<[k |-> <<>>, v |-> v]>> \o rest :
                     rest \in Lists(n - 1 - Content(v))} :
                 v \in Values(n - 1)})

Values(n) ==
    Scalars \cup {DictValue(d) : d \in Dicts(n)} \cup {ListValue(l) : l \in Lists(n)}

FlattenInit ==
    /\ input \in Dicts(MaxNodes)
    /\ output = <<>>

\* flatten_dict(r) for the record r drawn.
FlattenInput ==
    /\ output = <<>>
    /\ output' = <<flatten_dict(input, <<>>)>>
    /\ UNCHANGED input

\* flatten_dict called on what flatten_dict returned last.
FlattenAgain ==
    /\ output # <<>>
    /\ Len(output) < MaxCalls
    /\ output' = Append(output, flatten_dict(output[Len(output)], <<>>))
    /\ UNCHANGED input

FlattenNext ==
    \/ FlattenInput /\ UNCHANGED <<ingVars, loadVars, apiVars>>
    \/ FlattenAgain /\ UNCHANGED <<ingVars, loadVars, apiVars>>

FlattenSpecInit == FlattenInit /\ IngIdle /\ LoadIdle /\ ApiIdle

SpecFlatten == FlattenSpecInit /\ [][FlattenNext]_vars

\* A record all of whose values are scalars.
IsFlat(d) == \A i \in 1..Len(d) : d[i].v.t = "scalar"

\* C13: flatten_dict(flatten_dict(r)) = flatten_dict(r) for every nested
\* record r, and flatten_dict(r) = r, same keys and values, for every r
\* that is already flat.
C13_FlattenIdempotent ==
    /\ \A n \in 2..Len(output) : output[n] = output[1]
    /\ (Len(output) >= 1 /\ IsFlat(input)) => output[1] = input

\* C13's case: a record with a list whose first element is a dict that is
\* not empty, which flatten_dict changed, has been flattened twice.
C13_Witness ==
    /\ Len(output) >= 2
    /\ \E i \in 1..Len(input) :
          /\ input[i].v.t = "list"
          /\ Len(input[i].v.c) > 0
          /\ input[i].v.c[1].v.t = "dict"
          /\ input[i].v.c[1].v.c # <<>>
    /\ output[1] # input

-----------------------------------------------------------------------------
(* normalize_field_name (ingested_data.py and data_quality.py) *)

\* The characters of the model that \w does not match.
NonWordChars == {" ", "\t", "\n", "-", ".", ",", ";", "|", "'",
                 "(", ")", "{", "}", "[", "]", ":"}

Whitespace == {" ", "\t", "\n"}

\* str.strip(): the whitespace at both ends goes.
RECURSIVE LStrip(_, _)
LStrip(s, chars) ==
    IF s # <<>> /\ Head(s) \in chars THEN LStrip(Tail(s), chars) ELSE s

RECURSIVE RStrip(_, _)
RStrip(s, chars) ==
    IF s # <<>> /\ s[Len(s)] \in chars
    THEN RStrip(SubSeq(s, 1, Len(s) - 1), chars)
    ELSE s

\* s.strip(chars)
Strip(s, chars) == RStrip(LStrip(s, chars), chars)

\* re.sub(r'[^\w]', '_', name)
SubNonWord(s) == [i \in 1..Len(s) |-> IF s[i] \in NonWordChars THEN "_" ELSE s[i]]

\* The mutant of CollapseUnderscores: runs of underscores are left alone.
CollapseNothing(s) == s

\* re.sub(r'_+', '_', name)
RECURSIVE CollapseUnderscores(_)
CollapseUnderscores(s) ==
    IF Len(s) < 2 THEN s
    ELSE IF s[1] = "_" /\ s[2] = "_" THEN CollapseUnderscores(Tail(s))
    ELSE <<s[1]>> \o CollapseUnderscores(Tail(s))

\* ingested_data.py, lines 26-31.
normalize_field_name(name) ==
    Strip(CollapseUnderscores(SubNonWord(Strip(Lower(name), Whitespace))), {"_"})

\* data_quality.py, lines 132-154.
dq_normalize_field_name(name) ==
    LET name1 == Strip(Lower(name), Whitespace)
        name2 == SubNonWord(name1)
        name3 == CollapseUnderscores(name2)
    IN  Strip(name3, {"_"})

\* The strings of at most n characters over an alphabet.
RECURSIVE StringsOver(_, _)
StringsOver(alphabet, n) ==
    IF n = 0 THEN {<<>>}
    ELSE LET shorter == StringsOver(alphabet, n - 1)
         IN  shorter \cup {Append(s, c) : s \in shorter, c \in alphabet}

\* The characters of a field name: a lowercase and an uppercase letter, the
\* underscore, a blank and another non-word character.
NameChars == {"a", "A", "_", " ", "-"}

NameInit ==
    /\ input \in [module : {"ingested_data", "data_quality"},
                  name : StringsOver(NameChars, MaxNameLen)]
    /\ output = <<>>

\* The definition of the module the call goes to.
NormalizeNameIn(module, name) ==
    IF module = "data_quality"
    THEN dq_normalize_field_name(name)
    ELSE normalize_field_name(name)

\* normalize_field_name(s) for the name drawn.
NormalizeName ==
    /\ output = <<>>
    /\ output' = <<NormalizeNameIn(input.module, input.name)>>
    /\ UNCHANGED input

\* normalize_field_name called on what it returned last.
NormalizeNameAgain ==
    /\ output # <<>>
    /\ Len(output) < MaxCalls
    /\ output' = Append(output, NormalizeNameIn(input.module, output[Len(output)]))
    /\ UNCHANGED input

NameNext ==
    \/ NormalizeName /\ UNCHANGED <<ingVars, loadVars, apiVars>>
    \/ NormalizeNameAgain /\ UNCHANGED <<ingVars, loadVars, apiVars>>

NameSpecInit == NameInit /\ IngIdle /\ LoadIdle /\ ApiIdle

SpecName == NameSpecInit /\ [][NameNext]_vars

\* A normalized name: lowercase, word characters only, no two underscores
\* in a row and none at either end.
IsNormalizedName(s) ==
    /\ \A i \in 1..Len(s) : LowerChar(s[i]) = s[i] /\ s[i] \notin NonWordChars
    /\ \A i \in 1..(Len(s) - 1) : ~(s[i] = "_" /\ s[i + 1] = "_")
    /\ s # <<>> => s[1] # "_" /\ s[Len(s)] # "_"

\* C14: normalize_field_name(normalize_field_name(s)) =
\* normalize_field_name(s) for every string s, in both modules, and the
\* result is lowercase, has no non-word character, no run of two
\* underscores and no underscore at either end.
C14_NameIdempotent ==
    /\ \A n \in 2..Len(output) : output[n] = output[1]
    /\ Len(output) >= 1 => IsNormalizedName(output[1])

\* C14's case: a name with an uppercase letter and two non-word characters
\* in a row inside it, which normalization changed, was normalized twice.
C14_Witness ==
    /\ Len(output) >= 2
    /\ \E i \in 1..Len(input.name) : LowerChar(input.name[i]) # input.name[i]
    /\ \E i \in 2..(Len(input.name) - 2) :
          /\ input.name[i] \in NonWordChars
          /\ input.name[i + 1] \in NonWordChars
          /\ input.name[i - 1] \notin NonWordChars \cup {"_"}
          /\ input.name[i + 2] \notin NonWordChars \cup {"_"}
    /\ output[1] # input.name
    /\ Len(output[1]) = 3

-----------------------------------------------------------------------------
(* data_quality.py: fix_malformed_json_line *)

\* A JSON line is a sequence of tokens: the four brackets, comma, colon,
\* blank, "1" for a number and "k" for a string literal (one without
\* brackets in it).

\* line.count(c)
Count(line, c) == Cardinality({i \in 1..Len(line) : line[i] = c})

\* c * n
Repeat(c, n) == [i \in 1..n |-> c]

\* json.loads: the position after the value that starts at token i of t, or
\* 0 when there is none.
RECURSIVE ParseValue(_, _)
RECURSIVE ParseElements(_, _)
RECURSIVE ParseMembers(_, _)
ParseValue(t, i) ==
    IF i > Len(t) THEN 0
    ELSE CASE t[i] \in {"1", "k"} -> i + 1
           [] t[i] = "[" ->
                IF i + 1 <= Len(t) /\ t[i + 1] = "]" THEN i + 2
                ELSE ParseElements(t, i + 1)
           [] t[i] = "{" ->
                IF i + 1 <= Len(t) /\ t[i + 1] = "}" THEN i + 2
                ELSE ParseMembers(t, i + 1)
           [] OTHER -> 0

ParseElements(t, i) ==
    LET j == ParseValue(t, i) IN
    IF j = 0 \/ j > Len(t) THEN 0
    ELSE IF t[j] = "]" THEN j + 1
    ELSE IF t[j] = "," THEN ParseElements(t, j + 1)
    ELSE 0

ParseMembers(t, i) ==
    IF i + 1 > Len(t) \/ t[i] # "k" \/ t[i + 1] # ":" THEN 0
    ELSE LET j == ParseValue(t, i + 2) IN
         IF j = 0 \/ j > Len(t) THEN 0
         ELSE IF t[j] = "}" THEN j + 1
         ELSE IF t[j] = "," THEN ParseMembers(t, j + 1)
         ELSE 0

\* Whether json.loads(line) returns: the line is one JSON value, with blanks
\* allowed around the tokens.
JsonLoads(line) ==
    LET t == SelectSeq(line, LAMBDA c : c \notin Whitespace)
    IN  ParseValue(t, 1) = Len(t) + 1

\* fix_malformed_json_line(line): the repaired line, or Null for None.
fix_malformed_json_line(line) ==
    IF line = <<>> \/ Strip(line, Whitespace) = <<>> THEN Null
    ELSE LET line1 == Strip(line, Whitespace)
             line2 == IF Count(line1, "{") > Count(line1, "}")
                      THEN line1 \o Repeat("}", Count(line1, "{") - Count(line1, "}"))
                      ELSE line1
             line3 == IF Count(line2, "[") > Count(line2, "]")
                      THEN line2 \o Repeat("]", Count(line2, "[") - Count(line2, "]"))
                      ELSE line2
         IN  IF JsonLoads(line3) THEN line3 ELSE Null

JsonChars == {"{", "}", "[", "]", ",", ":", " ", "1", "k"}

JsonInit ==
    /\ input \in StringsOver(JsonChars, MaxLineLen)
    /\ output = <<>>

\* fix_malformed_json_line(line) for the line drawn.
FixLine ==
    /\ output = <<>>
    /\ output' = <<fix_malformed_json_line(input)>>
    /\ UNCHANGED input

JsonNext == FixLine /\ UNCHANGED <<ingVars, loadVars, apiVars>>

JsonSpecInit == JsonInit /\ IngIdle /\ LoadIdle /\ ApiIdle

SpecJson == JsonSpecInit /\ [][JsonNext]_vars

\* A line that lacks nothing but closers: some sequence of closing braces
\* and brackets put after it makes it a JSON value.
Closable(line) ==
    \E z \in StringsOver({"}", "]"}, MaxLineLen) : JsonLoads(line \o z)

\* The closers the claim says are appended.
MissingClosers(line) ==
    (IF Count(line, "{") > Count(line, "}")
     THEN Repeat("}", Count(line, "{") - Count(line, "}")) ELSE <<>>)
    \o (IF Count(line, "[") > Count(line, "]")
        THEN Repeat("]", Count(line, "[") - Count(line, "]")) ELSE <<>>)

\* C15: whenever fix_malformed_json_line returns a string, it is the
\* stripped line followed by the missing closing braces and then the missing
\* closing brackets, and nothing else; and a line that is a JSON value but
\* for unclosed braces and brackets, those nested in one another included,
\* is repaired to a string that parses, not rejected.
C15_RepairsUnclosed ==
    output # <<>> =>
        LET stripped == Strip(input, Whitespace) IN
        /\ ~IsNull(output[1]) => output[1] = stripped \o MissingClosers(stripped)
        /\ (stripped # <<>> /\ Closable(stripped)) =>
              ~IsNull(output[1]) /\ JsonLoads(output[1])

-----------------------------------------------------------------------------
(* data_quality.py: clean_string and handle_corrupted_line *)

\* "^" stands for a control character of [\x00-\x08\x0B-\x0C\x0E-\x1F\x7F].
ControlChars == {"^"}

\* str.split(): the runs of non-whitespace characters.
RECURSIVE Words(_, _)
Words(s, word) ==
    IF s = <<>> THEN (IF word = <<>> THEN <<>> ELSE <<word>>)
    ELSE IF Head(s) \in Whitespace
         THEN (IF word = <<>> THEN <<>> ELSE <<word>>) \o Words(Tail(s), <<>>)
         ELSE Words(Tail(s), Append(word, Head(s)))

\* clean_string(value) of a string: control characters go, every run of
\* whitespace becomes one blank, the ends are stripped.
clean_string(value) ==
    LET str_value1 == SelectSeq(value, LAMBDA c : c \notin ControlChars)
        str_value2 == JoinWith(<<" ">>, Words(str_value1, <<>>))
    IN  Strip(str_value2, Whitespace)

\* s.split(delimiter)
RECURSIVE Split(_, _, _)
Split(s, delimiter, part) ==
    IF s = <<>> THEN <<part>>
    ELSE IF Head(s) = delimiter THEN <<part>> \o Split(Tail(s), delimiter, <<>>)
    ELSE Split(Tail(s), delimiter, Append(part, Head(s)))

\* Line 115: the delimiters tried, in order.
Delimiters == <<",", ";", "\t", "|">>

\* What handle_corrupted_line returns: None, or a dict (its items in order).
NoneResult == [tag |-> "None", items |-> <<>>]

DictResult(items) == [tag |-> "dict", items |-> items]

\* f"col_{i}"
ColKey(i) == <<"col", "_", i>>

\* {f"col_{i}": clean_string(part) for i, part in enumerate(parts)}
PositionalRecord(parts) ==
    DictResult([i \in 1..Len(parts) |-> [k |-> ColKey(i - 1), v |-> clean_string(parts[i])]])

\* Lines 115-118: the first delimiter, from the d-th on, that splits line
\* into more than one part decides the result.
RECURSIVE SplitOnFirst(_, _)
SplitOnFirst(line, d) ==
    IF d > Len(Delimiters) THEN NoneResult
    ELSE LET parts == Split(line, Delimiters[d], <<>>) IN
         IF Len(parts) > 1 THEN PositionalRecord(parts)
         ELSE SplitOnFirst(line, d + 1)

\* handle_corrupted_line(line, format_type).  For "json" the dict is the
\* value json.loads gives for the repaired line, kept as that line.
handle_corrupted_line(line, format_type) ==
    IF line = <<>> \/ Strip(line, Whitespace) = <<>> THEN NoneResult
    ELSE LET line1 == clean_string(line) IN
         IF format_type = "csv" THEN SplitOnFirst(line1, 1)
         ELSE IF format_type = "json"
         THEN LET fixed == fix_malformed_json_line(line1) IN
              IF ~IsNull(fixed)
              THEN DictResult(<<[k |-> <<"json.loads">>, v |-> fixed]>>)
              ELSE NoneResult
         ELSE NoneResult

CsvChars == {"a", ",", ";", "\t", "|", " ", "^"}

CsvInit ==
    /\ input \in [line : StringsOver(CsvChars, MaxCsvLen),
                  format_type : {"csv", "json", "xml"}]
    /\ output = <<>>

\* handle_corrupted_line(line, format_type) for the line drawn.
HandleLine ==
    /\ output = <<>>
    /\ output' = <<handle_corrupted_line(input.line, input.format_type)>>
    /\ UNCHANGED input

CsvNext == HandleLine /\ UNCHANGED <<ingVars, loadVars, apiVars>>

CsvSpecInit == CsvInit /\ IngIdle /\ LoadIdle /\ ApiIdle

SpecCsv == CsvSpecInit /\ [][CsvNext]_vars

\* The delimiters of the four that occur in a line, in the order tried.
DelimitersIn(line) ==
    SelectSeq(Delimiters, LAMBDA d : \E i \in 1..Len(line) : line[i] = d)

\* C16: for the format csv, a line that is not blank is split on the first
\* of comma, semicolon, tab and pipe that occurs in it, and the result is
\* the record col_0..col_{n-1} of the cleaned parts; a line whose only
\* delimiter is the tab gets one key per part between tabs; the result is
\* None only when none of the four delimiters occurs in the line.
C16_SplitsOnFirstDelimiter ==
    (/\ output # <<>>
     /\ input.format_type = "csv"
     /\ Strip(input.line, Whitespace) # <<>>) =>
        LET found == DelimitersIn(input.line) IN
        IF found = <<>>
        THEN output[1] = NoneResult
        ELSE output[1] = PositionalRecord(Split(input.line, found[1], <<>>))

-----------------------------------------------------------------------------
(* ingested_data.py: parse_sql_dump *)

\* The file is one statement  INSERT INTO t (columns_str) VALUES rest , kept
\* as the two texts the pattern of line 166 looks at: columns_str, which
\* group 2 takes, and rest, the text after VALUES and its blanks.  The
\* single quote stands for both quote characters.
QuoteChars == {"'"}

\* sanitize_for_storage's max_length.
max_length == 10000

\* sanitize_for_storage(value) of a string (ingested_data.py, lines 33-40).
sanitize_for_storage(value) ==
    Strip(IF Len(value) > max_length THEN SubSeq(value, 1, max_length) ELSE value,
          Whitespace)

\* Group 3 of the pattern, (.+?)(?=INSERT|$) under MULTILINE: the shortest
\* text of at least one character that ends before INSERT, before a newline
\* or at the end of the file.
RECURSIVE ValuesStr(_, _)
ValuesStr(rest, n) ==
    IF n >= Len(rest) THEN rest
    ELSE IF rest[n + 1] \in {"\n", "INSERT"} THEN SubSeq(rest, 1, n)
    ELSE ValuesStr(rest, n + 1)

\* The position after the blanks that start at i.
RECURSIVE SkipBlanks(_, _)
SkipBlanks(s, i) ==
    IF i <= Len(s) /\ s[i] \in Whitespace THEN SkipBlanks(s, i + 1) ELSE i

\* re.split(r'\),\s*\(', values_str)
RECURSIVE SplitRows(_, _)
SplitRows(s, part) ==
    IF s = <<>> THEN <<part>>
    ELSE IF /\ Len(s) >= 3
            /\ s[1] = ")" /\ s[2] = ","
            /\ SkipBlanks(s, 3) <= Len(s)
            /\ s[SkipBlanks(s, 3)] = "("
         THEN <<part>> \o SplitRows(SubSeq(s, SkipBlanks(s, 3) + 1, Len(s)), <<>>)
         ELSE SplitRows(Tail(s), Append(part, Head(s)))

\* current_value.strip().strip("'\"`")
StripValue(current_value) == Strip(Strip(current_value, Whitespace), QuoteChars)

\* Lines 187-205: the loop over the characters of row_str and the last
\* value after it.
RECURSIVE ScanValues(_, _, _, _, _, _)
ScanValues(row_str, i, values, current_value, in_quotes, quote_char) ==
    IF i > Len(row_str)
    THEN (IF current_value # <<>> THEN Append(values, StripValue(current_value))
          ELSE values)
    ELSE LET char == row_str[i] IN
         IF char \in QuoteChars /\ (~in_quotes \/ char = quote_char)
         THEN ScanValues(row_str, i + 1, values, Append(current_value, char),
                         ~in_quotes, IF ~in_quotes THEN char ELSE None)
         ELSE IF char = "," /\ ~in_quotes
         THEN ScanValues(row_str, i + 1, Append(values, StripValue(current_value)),
                         <<>>, in_quotes, quote_char)
         ELSE ScanValues(row_str, i + 1, values, Append(current_value, char),
                         in_quotes, quote_char)

\* Lines 208-216: the record of a row, or no record.
RecordsOfRow(columns, values) ==
    LET n == Min(Len(values), Len(columns))
        items == [i \in 1..n |-> [k |-> normalize_field_name(columns[i]),
                                  v |-> Scalar(sanitize_for_storage(values[i]))]]
    IN  IF Len(values) = Len(columns) \/ Len(values) > 0
        THEN <<flatten_dict(DictOf(<<>>, items, 1), <<>>)>>
        ELSE <<>>

RECURSIVE RecordsOfRows(_, _, _)
RecordsOfRows(columns, value_rows, i) ==
    IF i > Len(value_rows) THEN <<>>
    ELSE LET row_str == Strip(Strip(value_rows[i], Whitespace), {"(", ")"})
             values == ScanValues(row_str, 1, <<>>, <<>>, FALSE, None)
         IN  RecordsOfRow(columns, values) \o RecordsOfRows(columns, value_rows, i + 1)

\* parse_sql_dump of the file: the records of its statement.
parse_sql_dump(content) ==
    IF content.columns_str = <<>> \/ content.rest = <<>> THEN <<>>
    ELSE LET values_str == ValuesStr(content.rest, 1)
             cols == Split(content.columns_str, ",", <<>>)
             columns == [i \in 1..Len(cols) |->
                            Strip(Strip(cols[i], Whitespace), QuoteChars)]
             value_rows == SplitRows(values_str, <<>>)
         IN  RecordsOfRows(columns, value_rows, 1)

\* The columns of the statement, as written and as normalized.
SqlColumns ==
    << [text |-> <<"id">>, name |-> <<"id">>],
       [text |-> <<" ", "A">>, name |-> <<"a">>],
       [text |-> <<" ", "'", "e", "-", "e", "'">>, name |-> <<"e", "_", "e">>] >>

\* The values a row is written with: the literal's text and what it
\* denotes.  The last one is a value left empty.
SqlLiterals ==
    { [text |-> <<"1">>, value |-> <<"1">>],
      [text |-> <<"'", "x", "'">>, value |-> <<"x">>],
      [text |-> <<"'", "x", ",", "y", "'">>, value |-> <<"x", ",", "y">>],
      [text |-> <<"'", "'">>, value |-> <<>>],
      [text |-> <<>>, value |-> <<>>] }

SeqsUpTo(S, n) == UNION {[1..k -> S] : k \in 0..n}

\* The statements: their columns, rows and what follows the last row.
SqlStatements ==
    [columns : {SubSeq(SqlColumns, 1, n) : n \in 1..MaxCols},
     rows : {rs \in SeqsUpTo(SeqsUpTo(SqlLiterals, MaxVals), MaxRows) : rs # <<>>},
     tail : {<<>>, <<";">>, <<";", "\n">>}]

\* The text of a row and of a statement.
RowText(row) ==
    <<"(">> \o JoinWith(<<",">>, [i \in 1..Len(row) |-> row[i].text]) \o <<")">>

ContentOf(stmt) ==
    [columns_str |-> JoinWith(<<",">>, [i \in 1..Len(stmt.columns) |-> stmt.columns[i].text]),
     rest |-> JoinWith(<<",">>, [i \in 1..Len(stmt.rows) |-> RowText(stmt.rows[i])])
              \o stmt.tail]

SqlInit ==
    /\ input \in SqlStatements
    /\ output = <<>>

\* parse_sql_dump(file) for the statement drawn.
ParseDump ==
    /\ output = <<>>
    /\ output' = <<parse_sql_dump(ContentOf(input))>>
    /\ UNCHANGED input

SqlNext == ParseDump /\ UNCHANGED <<ingVars, loadVars, apiVars>>

SqlSpecInit == SqlInit /\ IngIdle /\ LoadIdle /\ ApiIdle

SpecSql == SqlSpecInit /\ [][SqlNext]_vars

\* The record that pairs the first n columns of the statement with the
\* first n values of a row.
PairedRecord(stmt, row, n) ==
    [i \in 1..n |-> [k |-> stmt.columns[i].name, v |-> Scalar(row[i].value)]]

\* C17: a statement with one row of as many values as columns, each a
\* number or a quoted string, with or without a semicolon after it, gives
\* one record that maps every normalized column name to its value without
\* the quotes: a comma inside quotes does not split the value, and no value
\* keeps a ")" or a ";".
C17_RecordHasExactValues ==
    (/\ output # <<>>
     /\ Len(input.rows) = 1
     /\ Len(input.rows[1]) = Len(input.columns)
     /\ \A i \in 1..Len(input.rows[1]) : input.rows[1][i].text # <<>>) =>
        output[1] = <<PairedRecord(input, input.rows[1], Len(input.columns))>>

\* C18: a row whose number of values m >= 1 differs from the number of
\* columns n is not discarded: it gives a record of exactly min(m, n)
\* fields that pairs the i-th column with the i-th value, also when its
\* last value is empty.  (A row written "()" is not counted as a row of
\* one value.)
C18_MismatchedRowKept ==
    (/\ output # <<>>
     /\ \A r \in 1..Len(input.rows) :
           /\ Len(input.rows[r]) >= 1
           /\ Len(input.rows[r]) # Len(input.columns)
           /\ Len(input.rows[r]) = 1 => input.rows[r][1].text # <<>>) =>
        output[1] = [r \in 1..Len(input.rows) |->
                        PairedRecord(input, input.rows[r],
                                     Min(Len(input.rows[r]), Len(input.columns)))]

-----------------------------------------------------------------------------
(* detect_encoding_safe (data_quality.py and ingested_data.py) and
   detect_encoding (ingested_data.py) *)

utf_8 == <<"u", "t", "f", "-", "8">>
ascii == <<"a", "s", "c", "i", "i">>
us_ascii == <<"u", "s", "-", "a", "s", "c", "i", "i">>
windows_1252 == <<"w", "i", "n", "d", "o", "w", "s", "-", "1", "2", "5", "2">>
latin_1 == <<"l", "a", "t", "i", "n", "-", "1">>

\* What chardet.detect(raw_data) may give for 'encoding': no such key, None
\* (Null), or the name of an encoding as chardet spells it.
NoKey == <<"<no key>">>

Inferences ==
    {NoKey, Null, ascii, <<"A", "S", "C", "I", "I">>, us_ascii, utf_8,
     <<"U", "T", "F", "-", "1", "6">>,
     <<"I", "S", "O", "-", "8", "8", "5", "9", "-", "1">>,
     windows_1252,
     <<"W", "i", "n", "d", "o", "w", "s", "-", "1", "2", "5", "2">>}

\* result.get('encoding', 'utf-8')
GetEncoding(inference) == IF inference = NoKey THEN utf_8 ELSE inference

\* data_quality.py, lines 9-36.  file.readable: whether open and read
\* return; an exception of theirs is caught at line 35.
dq_detect_encoding_safe(file) ==
    IF ~file.readable THEN utf_8
    ELSE LET encoding == GetEncoding(file.inference) IN
         IF IsNull(encoding) THEN utf_8
         ELSE IF Lower(encoding) \in {ascii, us_ascii} THEN utf_8
         ELSE IF Lower(encoding) = windows_1252 THEN latin_1
         ELSE encoding

\* ingested_data.py, lines 13-24.
detect_encoding_safe(file) ==
    IF ~file.readable THEN utf_8
    ELSE LET encoding == GetEncoding(file.inference) IN
         IF IsNull(encoding) \/ Lower(encoding) \in {ascii, us_ascii} THEN utf_8
         ELSE encoding

\* ingested_data.py, lines 54-56: what the readers of the pipeline call.
detect_encoding(file) == detect_encoding_safe(file)

EncodingInit ==
    /\ input \in [readable : BOOLEAN, inference : Inferences]
    /\ output = <<>>

CanCall == Len(output) < MaxCalls

\* data_quality.detect_encoding_safe(file_path)
CallDataQuality ==
    /\ CanCall
    /\ output' = Append(output, [fn |-> "data_quality.detect_encoding_safe",
                                 encoding |-> dq_detect_encoding_safe(input)])
    /\ UNCHANGED input

\* ingested_data.detect_encoding_safe(file_path)
CallIngested ==
    /\ CanCall
    /\ output' = Append(output, [fn |-> "ingested_data.detect_encoding_safe",
                                 encoding |-> detect_encoding_safe(input)])
    /\ UNCHANGED input

\* ingested_data.detect_encoding(file_path)
CallDetectEncoding ==
    /\ CanCall
    /\ output' = Append(output, [fn |-> "ingested_data.detect_encoding",
                                 encoding |-> detect_encoding(input)])
    /\ UNCHANGED input

EncodingNext ==
    \/ CallDataQuality /\ UNCHANGED <<ingVars, loadVars, apiVars>>
    \/ CallIngested /\ UNCHANGED <<ingVars, loadVars, apiVars>>
    \/ CallDetectEncoding /\ UNCHANGED <<ingVars, loadVars, apiVars>>

EncodingSpecInit == EncodingInit /\ IngIdle /\ LoadIdle /\ ApiIdle

SpecEncoding == EncodingSpecInit /\ [][EncodingNext]_vars

\* The fallback policy: utf-8 when sampling fails, when nothing is inferred
\* and for plain ASCII; latin-1 for windows-1252; the inferred name
\* otherwise.
FallbackPolicy(file) ==
    IF ~file.readable \/ file.inference \in {NoKey, Null} THEN utf_8
    ELSE IF Lower(file.inference) \in {ascii, us_ascii} THEN utf_8
    ELSE IF Lower(file.inference) = windows_1252 THEN latin_1
    ELSE file.inference

\* C19: every detector, the one the pipeline uses included, returns what the
\* fallback policy gives for the file, whatever was inferred (so never
\* windows-1252 as such), and so the two definitions of detect_encoding_safe
\* return the same for every file.
C19_DetectorsFollowPolicy ==
    \A i \in 1..Len(output) : output[i].encoding = FallbackPolicy(input)

-----------------------------------------------------------------------------
(* ingested_data.py: normalize_columns and its synonyms *)

\* The columns of the DataFrames normalize_columns is called with here: a
\* canonical column that is trimmed and lowercased and two synonyms of it,
\* one that is not and a synonym of it, and a column that is neither.
SynCols == {"email", "email_address", "e_mail", "dob", "birth_date", "city"}

\* The cells of a column: they name the column, so that a cell tells which
\* column it came from; the second has an uppercase letter and a blank at
\* the end.
SynCell(c, plain) == IF plain THEN <<c>> ELSE <<"A", c, " ">>

SynRows(cs) == {[c \in cs |-> SynCell(c, plain[c])] : plain \in [cs -> BOOLEAN]}

SynDfs ==
    UNION {{[cols |-> cs, rows |-> rows] :
               rows \in UNION {[1..n -> SynRows(cs)] : n \in 1..MaxSynRows}} :
           cs \in (SUBSET SynCols) \ {{}}}

SynInit ==
    /\ input \in SynDfs
    /\ output = <<>>

\* normalize_columns(df) for the DataFrame drawn.
NormalizeColumns ==
    /\ output = <<>>
    /\ output' = <<normalize_columns(input, 1)>>
    /\ UNCHANGED input

SynNext == NormalizeColumns /\ UNCHANGED <<ingVars, loadVars, apiVars>>

SynSpecInit == SynInit /\ IngIdle /\ LoadIdle /\ ApiIdle

SpecSynonyms == SynSpecInit /\ [][SynNext]_vars

\* The canonical names and, for one of them, its synonyms that a DataFrame
\* has, in the order of the mapping.
Canonical == {mapping[i][2] : i \in 1..Len(mapping)}

SynonymsIn(df, new) ==
    LET olds == [i \in 1..Len(mapping) |-> mapping[i][1]]
        here == {i \in 1..Len(mapping) : mapping[i][2] = new /\ olds[i] \in df.cols}
    IN  SelectSeq(olds, LAMBDA old : \E i \in here : olds[i] = old)

\* A cell of column c after the trimming and lowercasing of lines 391-393.
Normalized(c, cell) ==
    IF \E i \in 1..Len(TrimmedFields) : TrimmedFields[i] = c
    THEN Trim(Lower(cell))
    ELSE cell

\* Column c of out holds, row by row, the cells of column from of df.
SameColumn(out, c, df, from) ==
    /\ c \in out.cols
    /\ \A k \in 1..Len(df.rows) : out.rows[k][c] = df.rows[k][from]

\* Column c of out holds the cells of column from of df as lines 391-393
\* leave them.
NormalizedColumn(out, c, df, from) ==
    /\ c \in out.cols
    /\ \A k \in 1..Len(df.rows) : out.rows[k][c] = Normalized(c, df.rows[k][from])

\* What the renames do, leaving aside the values of the canonical columns:
\* no rename lands on a name that is there (the output has one column for
\* every column of the input, and ingest_timestamp), a synonym whose
\* canonical column is in the input stays, and of the synonyms of a
\* canonical column that is not, the first is renamed and the others stay.
RenamesGuarded(df, out) ==
    /\ Len(out.rows) = Len(df.rows)
    /\ Cardinality(out.cols \ {"ingest_timestamp"}) = Cardinality(df.cols)
    /\ \A c \in df.cols \ (Canonical \cup {mapping[i][1] : i \in 1..Len(mapping)}) :
          SameColumn(out, c, df, c)
    /\ \A new \in Canonical :
          LET olds == SynonymsIn(df, new) IN
          /\ \A i \in 2..Len(olds) : SameColumn(out, olds[i], df, olds[i])
          /\ (new \in df.cols /\ Len(olds) >= 1) => SameColumn(out, olds[1], df, olds[1])
          /\ (new \notin df.cols /\ Len(olds) >= 1) =>
                /\ olds[1] \notin out.cols
                /\ NormalizedColumn(out, new, df, olds[1])

\* C20 as stated: a canonical column of the input keeps its original
\* values, no two columns of the output have the same name, and of two
\* synonyms of a canonical column that is not there exactly one is renamed.
C20_CanonicalKeepsOriginal ==
    output # <<>> =>
        /\ RenamesGuarded(input, output[1])
        /\ \A new \in Canonical \cap input.cols :
              SameColumn(output[1], new, input, new)

\* C20 as amended: a canonical column of the input keeps its own values,
\* never a synonym's, trimmed and lowercased when it is one of name,
\* first_name, last_name, email and phone; the rest as stated.
C20_CanonicalKeepsOwn ==
    output # <<>> =>
        /\ RenamesGuarded(input, output[1])
        /\ \A new \in Canonical \cap input.cols :
              NormalizedColumn(output[1], new, input, new)

\* C20's case: email_address and e_mail are both there, email is not;
\* and, in another state, email is there with a synonym.
C20_Witness ==
    /\ output # <<>>
    /\ {"email_address", "e_mail"} \subseteq input.cols
    /\ "email" \notin input.cols
    /\ "e_mail" \in output[1].cols
    /\ "email" \in output[1].cols
    /\ {"dob", "birth_date"} \subseteq input.cols

-----------------------------------------------------------------------------
(* ingested_data.py: read_xml_to_dicts *)

\* An element of a parsed document is a record [tag, text, kids]: text is
\* the element's text as a string of characters (empty when it has none),
\* kids its child elements in document order.  The file is a record
\* [parsed, root]: parsed is FALSE when ET.parse raises.

\* The text of a scalar, from its characters.
RECURSIVE Join(_)
Join(s) == IF s = <<>> THEN "" ELSE Head(s) \o Join(Tail(s))

\* elem.iter(): the element and its descendants, in document order.
RECURSIVE Iter(_)
RECURSIVE IterAll(_)
IterAll(kids) == IF kids = <<>> THEN <<>> ELSE Iter(Head(kids)) \o IterAll(Tail(kids))

Iter(elem) == <<elem>> \o IterAll(elem.kids)

\* Line 106 and 123: elem.text and elem.text.strip()
HasText(elem) == elem.text # <<>> /\ Strip(elem.text, Whitespace) # <<>>

\* elem.text.strip(), as a value of the record
TextValue(elem) == Scalar(Join(Strip(elem.text, Whitespace)))

\* The mutant of Collect: the text of a repeated tag replaces the one kept.
CollectOverwrites(record, key, v) ==
    [i \in 1..Len(record) |-> IF record[i].k = key THEN [k |-> key, v |-> v] ELSE record[i]]

\* Lines 109-113: record[key] of a key that is there becomes a list, if it
\* is none, and the text is appended to it.
Collect(record, key, v) ==
    [i \in 1..Len(record) |->
        IF record[i].k # key THEN record[i]
        ELSE LET old == record[i].v
                 list == IF old.t # "list" THEN <<[k |-> <<>>, v |-> old]>> ELSE old.c
             IN  [k |-> key, v |-> ListValue(Append(list, [k |-> <<>>, v |-> v]))]]

\* Lines 105-115: the loop over child.iter(), from element i on.
RECURSIVE ChildRecord(_, _, _)
ChildRecord(elems, i, record) ==
    IF i > Len(elems) THEN record
    ELSE LET elem == elems[i]
             key == <<elem.tag>>
         IN  IF ~HasText(elem) THEN ChildRecord(elems, i + 1, record)
             ELSE IF \E j \in 1..Len(record) : record[j].k = key
             THEN ChildRecord(elems, i + 1, Collect(record, key, TextValue(elem)))
             ELSE ChildRecord(elems, i + 1,
                              Append(record, [k |-> key, v |-> TextValue(elem)]))

\* Lines 103-117: the loop over the children of the root, from child i on.
RECURSIVE ChildRecords(_, _)
ChildRecords(root, i) ==
    IF i > Len(root.kids) THEN <<>>
    ELSE LET record == ChildRecord(Iter(root.kids[i]), 1, <<>>)
         IN  (IF record # <<>> THEN <<flatten_dict(record, <<>>)>> ELSE <<>>)
             \o ChildRecords(root, i + 1)

\* Lines 122-124: the loop over root.iter(), from element i on.
RECURSIVE RootRecord(_, _, _, _)
RootRecord(root, elems, i, record) ==
    IF i > Len(elems) THEN record
    ELSE LET elem == elems[i]
         IN  IF HasText(elem) /\ elem.tag # root.tag
             THEN RootRecord(root, elems, i + 1,
                             PutItem(record, [k |-> <<elem.tag>>, v |-> TextValue(elem)]))
             ELSE RootRecord(root, elems, i + 1, record)

\* Lines 120-126: the whole document as one record, when there is none yet.
FallbackRecords(root) ==
    LET record == RootRecord(root, Iter(root), 1, <<>>)
    IN  IF record # <<>> THEN <<flatten_dict(record, <<>>)>> ELSE <<>>

read_xml_to_dicts(file) ==
    IF ~file.parsed THEN <<>>
    ELSE LET records == ChildRecords(file.root, 1)
         IN  IF records = <<>> THEN FallbackRecords(file.root) ELSE records

\* The documents: a root, with a text or none, and at most n elements below
\* it, over two tags and these texts (none, blank, one to strip, a plain
\* one).  The root has the first tag: the code tells no tag from another.
XmlTags == {"a", "b"}

XmlTexts == {<<>>, <<" ">>, <<" ", "x">>, <<"y">>}

RECURSIVE Size(_)
RECURSIVE SizeAll(_)
SizeAll(kids) == IF kids = <<>> THEN 0 ELSE Size(Head(kids)) + SizeAll(Tail(kids))

Size(elem) == 1 + SizeAll(elem.kids)

RECURSIVE Forests(_)
Forests(n) ==
    {<<>>} \cup
    (IF n = 0 THEN {}
     ELSE UNION {{<<first>> \o rest : rest \in Forests(n - Size(first))} :
                 first \in [tag : XmlTags, text : XmlTexts, kids : Forests(n - 1)]})

XmlFiles(n) ==
    {[parsed |-> FALSE, root |-> [tag |-> "a", text |-> <<>>, kids |-> <<>>]]}
    \cup [parsed : {TRUE},
          root : [tag : {"a"}, text : {<<>>, <<"y">>}, kids : Forests(n)]]

XmlInit ==
    /\ input \in XmlFiles(MaxElems)
    /\ output = <<>>

\* read_xml_to_dicts(file) for the file drawn.
ReadXml ==
    /\ output = <<>>
    /\ output' = <<read_xml_to_dicts(input)>>
    /\ UNCHANGED input

XmlNext == ReadXml /\ UNCHANGED <<ingVars, loadVars, apiVars>>

XmlSpecInit == XmlInit /\ IngIdle /\ LoadIdle /\ ApiIdle

SpecXml == XmlSpecInit /\ [][XmlNext]_vars

\* The texts of the elements of elems that have the tag and a text that is
\* not blank, stripped, in document order.
TextsOf(elems, tag) ==
    LET hits == SelectSeq(elems, LAMBDA e : e.tag = tag /\ HasText(e))
    IN  [i \in 1..Len(hits) |-> [k |-> <<>>, v |-> TextValue(hits[i])]]

\* The candidate records of a document: the children of the root that have
\* a text somewhere.
Candidates(root) ==
    SelectSeq(root.kids, LAMBDA c : \E i \in 1..Len(Iter(c)) : HasText(Iter(c)[i]))

\* The elements the whole-document record is made of.
FallbackElems(root) == SelectSeq(Iter(root), LAMBDA e : e.tag # root.tag)

\* The record holds, for every tag that has two texts or more among elems,
\* all of them in document order, as the string of their list.
HoldsRepeated(record, elems) ==
    \A tag \in XmlTags :
        Len(TextsOf(elems, tag)) >= 2 =>
            \E i \in 1..Len(record) :
                /\ record[i].k = <<tag>>
                /\ record[i].v.t = "scalar"
                /\ record[i].v.c = TextsOf(elems, tag)

\* The whole-document record is never built from a text: when no child has
\* a text, no element below the root has one.
FallbackYieldsNothing ==
    (output # <<>> /\ input.parsed /\ Candidates(input.root) = <<>>) =>
        output[1] = <<>>

\* C21: every candidate record of read_xml_to_dicts (a child of the root
\* with a text in it, or the whole document when no child has one) holds,
\* for a tag with k >= 2 texts that are not blank, all k texts in document
\* order.
C21_RepeatedTagsCollected ==
    (output # <<>> /\ input.parsed) =>
        LET root == input.root
            cands == Candidates(root)
        IN  IF cands # <<>>
            THEN /\ Len(output[1]) = Len(cands)
                 /\ \A i \in 1..Len(cands) : HoldsRepeated(output[1][i], Iter(cands[i]))
            ELSE \A tag \in XmlTags :
                    Len(TextsOf(FallbackElems(root), tag)) >= 2 =>
                        /\ Len(output[1]) = 1
                        /\ HoldsRepeated(output[1][1], FallbackElems(root))

\* C21's case: a child whose tag has three texts, not all the same, its own
\* and those of two elements below it, has been read, and its record holds
\* them in a string.
C21_Witness ==
    /\ output # <<>>
    /\ input.parsed
    /\ Len(input.root.kids) = 1
    /\ \E tag \in XmlTags :
          /\ Len(TextsOf(Iter(input.root.kids[1]), tag)) = 3
          /\ TextsOf(Iter(input.root.kids[1]), tag)[1] # TextsOf(Iter(input.root.kids[1]), tag)[2]
          /\ Len(input.root.kids[1].kids) = 1
          /\ Len(output[1]) = 1
          /\ \E i \in 1..Len(output[1][1]) :
                /\ output[1][1][i].k = <<tag>>
                /\ Len(output[1][1][i].v.c) = 3

-----------------------------------------------------------------------------
(* api/services/credit_service.py: deduct_credits, and api/routes/admin.py:   *)
(* topup_user, called for one user by concurrent requests                   *)

\* Every request has a session of its own (query.py:37, admin.py:14), so a
\* transaction of its own, at the isolation level the engine is created with
\* (db/postgres.py:15-20 sets none: the store's default, read committed).  A
\* SELECT returns the balance as last committed; an UPDATE takes the row's
\* lock, waiting for the transaction that holds it to end, and its value is
\* committed by the commit that follows.  The user's row is there: signing
\* up creates it (routes/auth.py:44-49) and no route deletes it.
Requests == 1..NumRequests

Amounts == 1..MaxAmount

NoRequest == [kind |-> "none", amount |-> 0]

ApiInit ==
    /\ credits = InitialBalance
    /\ lock = 0
    /\ pc = [p \in Requests |-> "idle"]
    /\ req = [p \in Requests |-> NoRequest]
    /\ seen = [p \in Requests |-> 0]
    /\ new_balance = [p \in Requests |-> 0]

\* credit_service.py:14-15 and admin.py:22-23: the request arrives and its
\* SELECT returns the row.
SelectCredit(p) ==
    /\ pc[p] = "idle"
    /\ \E kind \in {"deduct", "topup"}, amount \in Amounts :
          req' = [req EXCEPT ![p] = [kind |-> kind, amount |-> amount]]
    /\ seen' = [seen EXCEPT ![p] = credits]
    /\ pc' = [pc EXCEPT ![p] = "selected"]
    /\ UNCHANGED <<credits, lock, new_balance>>

\* credit_service.py:19-20: raise ValueError("Insufficient credits")
Insufficient(p) ==
    /\ pc[p] = "selected"
    /\ req[p].kind = "deduct"
    /\ seen[p] < req[p].amount
    /\ pc' = [pc EXCEPT ![p] = "raised"]
    /\ UNCHANGED <<credits, lock, req, seen, new_balance>>

\* credit_service.py:22 and admin.py:25: new_balance, from the row read
NewBalance(p) ==
    IF req[p].kind = "deduct" THEN seen[p] - req[p].amount ELSE seen[p] + req[p].amount

\* credit_service.py:23-25 and admin.py:26: the UPDATE, once the row's lock
\* is free
UpdateCredit(p) ==
    /\ pc[p] = "selected"
    /\ req[p].kind = "deduct" => seen[p] >= req[p].amount
    /\ lock = 0
    /\ lock' = p
    /\ new_balance' = [new_balance EXCEPT ![p] = NewBalance(p)]
    /\ pc' = [pc EXCEPT ![p] = "updated"]
    /\ UNCHANGED <<credits, req, seen>>

\* credit_service.py:26-27 and admin.py:30-32: commit and return
Commit(p) ==
    /\ pc[p] = "updated"
    /\ credits' = new_balance[p]
    /\ lock' = 0
    /\ pc' = [pc EXCEPT ![p] = "returned"]
    /\ UNCHANGED <<req, seen, new_balance>>

ApiNext ==
    \/ \E p \in Requests : SelectCredit(p) /\ UNCHANGED <<ingVars, loadVars, callVars>>
    \/ \E p \in Requests : Insufficient(p) /\ UNCHANGED <<ingVars, loadVars, callVars>>
    \/ \E p \in Requests : UpdateCredit(p) /\ UNCHANGED <<ingVars, loadVars, callVars>>
    \/ \E p \in Requests : Commit(p) /\ UNCHANGED <<ingVars, loadVars, callVars>>

ApiSpecInit == ApiInit /\ IngIdle /\ LoadIdle /\ CallIdle

SpecApi == ApiSpecInit /\ [][ApiNext]_vars

\* The sum of the amounts of the requests of a kind that returned.
RECURSIVE Returned(_, _)
Returned(kind, p) ==
    IF p = 0 THEN 0
    ELSE Returned(kind, p - 1)
         + (IF pc[p] = "returned" /\ req[p].kind = kind THEN req[p].amount ELSE 0)

\* No request is between its SELECT and its commit.
Quiet == \A p \in Requests : pc[p] \in {"idle", "returned", "raised"}

\* The balance is never negative: a deduction is made only from a balance
\* read that covers it.
BalanceNotNegative ==
    /\ credits >= 0
    /\ \A p \in Requests :
          (pc[p] \in {"updated", "returned"} /\ req[p].kind = "deduct") =>
              seen[p] >= req[p].amount

\* C22: under every interleaving of deductions and top-ups for the user the
\* balance is never negative and no update is lost: when no request is under
\* way the balance is the initial one, plus the top-ups, minus the deductions
\* that returned.
C22_NoLostUpdate ==
    /\ BalanceNotNegative
    /\ Quiet =>
          credits + Returned("deduct", NumRequests)
              = InitialBalance + Returned("topup", NumRequests)

-----------------------------------------------------------------------------
(* ingested_data.py: flatten_dict, the record it returns *)

\* The leaves of a nested record under the naming scheme: every value that
\* is neither a dict nor a list of dicts, with the key made of the keys on
\* its path, a list of dicts standing for its first element.
RECURSIVE Leaves(_, _)
Leaves(d, parent_key) ==
    IF d = <<>> THEN <<>>
    ELSE LET v == Head(d).v
             key == IF parent_key = <<>> THEN Head(d).k
                    ELSE parent_key \o <<"_">> \o Head(d).k
             here ==
                 IF v.t = "dict" THEN Leaves(v.c, key)
                 ELSE IF v.t = "list" /\ v.c # <<>> /\ v.c[1].v.t = "dict"
                 THEN Leaves(v.c[1].v.c, key)
                 ELSE IF v.t = "list"
                 THEN <<[k |-> key, v |-> IF v.c = <<>> THEN Scalar("") ELSE Str(v.c)]>>
                 ELSE <<[k |-> key, v |-> v]>>
         IN  here \o Leaves(Tail(d), parent_key)

\* Every leaf of d is an entry of the record.
KeepsLeaves(record, d) ==
    \A n \in 1..Len(Leaves(d, <<>>)) :
        \E i \in 1..Len(record) :
            /\ record[i].k = Leaves(d, <<>>)[n].k
            /\ record[i].v.t = Leaves(d, <<>>)[n].v.t
            /\ record[i].v.s = Leaves(d, <<>>)[n].v.s
            /\ record[i].v.c = Leaves(d, <<>>)[n].v.c

\* No value of what flatten_dict returned is a dict or a list.
FlattenReturnsFlat == output # <<>> => IsFlat(output[1])

\* C23: the record flatten_dict returns has no dict and no list among its
\* values, and two paths of the input that give the same compound key do
\* not drop one of the values: every leaf of the input is in the record.
C23_FlatAndNothingDropped ==
    output # <<>> =>
        /\ IsFlat(output[1])
        /\ KeepsLeaves(output[1], input)

====
